---- MODULE Spec2Model ----
(***************************************************************************)
(* A model of DroneController (app/core/drone.py) and of the alignment     *)
(* predicate of ArucoDetector (app/services/aruco.py).                     *)
(*                                                                         *)
(* execute_mission is an asyncio coroutine.  Coroutines of one event loop  *)
(* run one at a time and give up the processor only at an await that       *)
(* suspends (here: every asyncio.sleep).  The variable `running` holds the *)
(* task that owns the processor; while it is a task, only that task steps. *)
(* A state with running = NoTask is a state another coroutine, or the      *)
(* synchronous get_status, can observe.                                    *)
(*                                                                         *)
(* The drone link (EnhancedTello) and OpenCV are outside the repository:   *)
(* the battery reading, the frame delivered and the acknowledgement of a   *)
(* command are chosen at each call from small sets.                        *)
(***************************************************************************)
EXTENDS Integers, Sequences, FiniteSets, TLC

\* ------------------------------------------------------------------ bounds
NumTasks == 2
MaxCalls == 3

\* ------------------------------------------------------- program constants
HOME_MARKER_ID == 1
FRAME_WIDTH == 960
FRAME_HEIGHT == 720
BATTERY_MIN == 20
CENTER_THRESHOLD == 50
MAX_ATTEMPTS == 3
CORRECTION_DISTANCE == 50
CORRECTION_TRIGGER == 20
CORRECTION_STEP == 20
TAKEOFF_HEIGHT_MM == 1000
DEFAULT_FRAMES == 1

Tasks == 1..NumTasks
NoTask == 0

\* ----------------------------------------------------------- environment
\* A video frame as the detector sees it: avail = FALSE is get_frame()
\* returning None; ids is the list detectMarkers returns; the other fields
\* are what OpenCV computes for the home marker when it is in ids
\* (distance of its centre from the frame centre in pixels, its contour
\* area in pixels, the x and y of its translation vector in hundredths).
MkFrame(avail, ids, dist, area, tx, ty) ==
    [avail |-> avail, ids |-> ids, dist |-> dist, area |-> area, tx |-> tx, ty |-> ty]

FrameArea == FRAME_HEIGHT * FRAME_WIDTH

NoFrame == MkFrame(FALSE, <<>>, 0, 0, 0, 0)
OtherOnly == MkFrame(TRUE, <<2>>, 0, 0, 0, 0)
AlignedFrame == MkFrame(TRUE, <<2, 1>>, 40, (FrameArea * 15) \div 100, 0, 0)
OffRight == MkFrame(TRUE, <<1>>, 60, (FrameArea * 20) \div 100, 30, 0)
OffLeftBack == MkFrame(TRUE, <<1>>, 60, (FrameArea * 20) \div 100, -30, -30)
SmallCentered == MkFrame(TRUE, <<1>>, 40, (FrameArea * 5) \div 100, 30, 0)
EdgeFrame == MkFrame(TRUE, <<1>>, 50, (FrameArea * 15) \div 100, 0, 30)
OffSlightly == MkFrame(TRUE, <<1>>, 60, (FrameArea * 20) \div 100, 20, -20)

\* What the drone link can deliver: the battery readings, the frames at
\* preflight and in the landing loop, the frames at a capture point, and the
\* acknowledgements of a corrective command.  FullLink is the link of a
\* single flight; QuietLink is the link the concurrent calls are run against.
FullLink ==
    [batteries |-> {15, 19, 20, 80},
     frames |-> {NoFrame, OtherOnly, AlignedFrame, OffRight, OffLeftBack, SmallCentered,
                 EdgeFrame, OffSlightly},
     capture_frames |-> {NoFrame, OtherOnly, AlignedFrame},
     acks |-> BOOLEAN]
QuietLink ==
    [batteries |-> {19, 80},
     frames |-> {NoFrame, AlignedFrame, OffRight},
     capture_frames |-> {NoFrame, AlignedFrame},
     acks |-> {TRUE}]

\* The frames the detector is probed with: the marker lists with and without
\* the home marker, distances and areas on both sides of the two thresholds.
AlignGrid ==
    {MkFrame(TRUE, ids, dist, area, 30, 0) :
        ids \in {<<>>, <<2>>, <<1>>, <<2, 1>>, <<1, 2>>},
        dist \in {0, 40, 49, 50, 51, 60},
        area \in {(FrameArea * 5) \div 100, FrameArea \div 10, FrameArea \div 10 + 1,
                  (FrameArea * 15) \div 100, (FrameArea * 20) \div 100}}

\* The link of two flights in a row that differ in what the camera gives at
\* the capture points.
SurveyLink ==
    [batteries |-> {80},
     frames |-> {AlignedFrame},
     capture_frames |-> {NoFrame, OtherOnly, AlignedFrame},
     acks |-> {TRUE}]

\* The link of a flight along the long paths.
PathLink ==
    [batteries |-> {80},
     frames |-> {AlignedFrame, OffRight},
     capture_frames |-> {AlignedFrame},
     acks |-> {TRUE}]

\* A link that shows one frame of the grid besides the aligned one.
AlignLinks ==
    {[batteries |-> {80}, frames |-> {f, AlignedFrame}, capture_frames |-> {AlignedFrame},
      acks |-> {TRUE}] : f \in AlignGrid}

\* ------------------------------------------------------------ locations
\* A movement command of the location table: direction and distance in
\* millimetres (the table gives metres).
Move(direction, mm) == [direction |-> direction, distance |-> mm]
Point(has_position, position, frames) ==
    [has_position |-> has_position, position |-> position, frames |-> frames]

LocationA ==
    [path |-> <<Move("forward", 1000)>>,
     capture_points |-> <<Point(TRUE, Move("up", 505), 2),
                          Point(FALSE, Move("up", 0), DEFAULT_FRAMES)>>,
     return_path |-> <<Move("left", 300)>>]
LocationHome ==
    [path |-> <<>>,
     capture_points |-> <<>>,
     return_path |-> <<Move("back", 1000)>>]

TableFull == [id \in {"A", "home"} |-> IF id = "A" THEN LocationA ELSE LocationHome]
TableNoHome == [id \in {"A"} |-> LocationA]
Tables == {TableFull, TableNoHome}

\* A table whose paths have more than one command.
LongA ==
    [path |-> <<Move("forward", 1000), Move("right", 500), Move("up", 300)>>,
     capture_points |-> <<Point(TRUE, Move("down", 200), DEFAULT_FRAMES)>>,
     return_path |-> <<>>]
LongHome ==
    [path |-> <<>>,
     capture_points |-> <<>>,
     return_path |-> <<Move("left", 500), Move("back", 1000)>>]
TableLong == [id \in {"A", "home"} |-> IF id = "A" THEN LongA ELSE LongHome]
LocationIds == {"A", "home", "Z"}

VARIABLES
    mission_in_progress,  \* self.mission_in_progress
    current_mission,      \* self.current_mission
    image_buffer,         \* self.image_buffer
    locations,            \* settings.locations (config/locations.json)
    pc,                   \* position of each task's execute_mission call
    local,                \* the local variables of each call
    result,               \* how each task's latest call ended
    running,              \* the task that owns the event loop, or NoTask
    ncalls,               \* number of execute_mission calls made
    link,                 \* what the drone link can deliver (fixed)
    sent,                 \* commands given to the drone link by the latest accepted mission
    preflight,            \* what the latest accepted mission read at preflight
    rounds,               \* alignment evaluations of the landing loop of that mission
    frames_got            \* frames get_frame gave to the capture phase or landing loop
                          \* under way

vars == <<mission_in_progress, current_mission, image_buffer, locations, pc, local,
          result, running, ncalls, link, sent, preflight, rounds, frames_got>>

\* completion_time = 0 and error = "" stand for a key the record does not hold
NoMission ==
    [exists |-> FALSE, location_id |-> "", start_time |-> 0, status |-> "", error |-> "",
     completion_time |-> 0]
NoLocal ==
    [location_id |-> "", site |-> "", cmds |-> <<>>, ci |-> 0, pt |-> 0, fi |-> 0,
     attempts |-> 0, aligned |-> FALSE]
NoResult == [kind |-> "none", msg |-> ""]
NoPreflight ==
    [battery |-> -1, frame_read |-> FALSE, frame_avail |-> FALSE, marker_seen |-> FALSE]

Range(s) == {s[i] : i \in 1..Len(s)}

\* lines 10-18: the controller as constructed
Built ==
    /\ mission_in_progress = FALSE
    /\ current_mission = NoMission
    /\ image_buffer = <<>>
    /\ pc = [t \in Tasks |-> "idle"]
    /\ local = [t \in Tasks |-> NoLocal]
    /\ result = [t \in Tasks |-> NoResult]
    /\ running = NoTask
    /\ sent = <<>>
    /\ preflight = NoPreflight
    /\ rounds = <<>>
    /\ frames_got = <<>>

\* config.py lines 28-35: the table read from config/locations.json
Constructed == Built /\ locations \in Tables

\* Up to MaxCalls calls by NumTasks tasks against the quiet link.
Init == Constructed /\ ncalls = 0 /\ link = QuietLink

\* One call against the full link.
InitFlight == Constructed /\ ncalls = MaxCalls - 1 /\ link = FullLink

\* Two calls, one after the other or overlapping, against the survey link.
InitSurvey == Constructed /\ ncalls = MaxCalls - 2 /\ link = SurveyLink

\* One call over the table of long paths.
InitPath == Built /\ locations = TableLong /\ ncalls = MaxCalls - 1 /\ link = PathLink

\* One call against a link of the alignment grid.
InitAlign == Constructed /\ ncalls = MaxCalls - 1 /\ link \in AlignLinks

\* ------------------------------------------------------------- aruco.py
\* get_landing_alignment: (is_aligned, alignment_data); has = FALSE is the
\* None of the second component.
NoAlignment ==
    [is_aligned |-> FALSE, has |-> FALSE, distance_from_center |-> 0, marker_size |-> 0,
     tx |-> 0, ty |-> 0]

SizeThreshold == FrameArea \div 10

\* both thresholds taken inclusively
IsAlignedInclusive(frame) ==
    frame.dist <= CENTER_THRESHOLD /\ frame.area >= SizeThreshold

\* lines 70-73
IsAligned(frame) ==
    frame.dist < CENTER_THRESHOLD /\ frame.area > SizeThreshold

get_landing_alignment(frame) ==
    IF HOME_MARKER_ID \notin Range(frame.ids)
    THEN NoAlignment
    ELSE [is_aligned |-> IsAligned(frame), has |-> TRUE,
          distance_from_center |-> frame.dist, marker_size |-> frame.area,
          tx |-> frame.tx, ty |-> frame.ty]

\* ------------------------------------------------------------- drone.py
\* f"{direction} {int(distance * 100)}"
ToCm(mm) == mm \div 10
CommandOf(cmd) == cmd.direction \o " " \o ToString(ToCm(cmd.distance))

Send(log, command, ack) == Append(log, [cmd |-> command, ack |-> ack])


SleepPcs == {"path_sleep", "capture_sleep", "align_sleep"}

\* the in-progress test left out
MissionBusyUnchecked == FALSE

\* line 28: the in-progress test of execute_mission
MissionBusy == mission_in_progress

\* the release left out of the finally clause
FinallyDropped == UNCHANGED mission_in_progress

\* lines 62-63: finally: self.mission_in_progress = False
Finally == mission_in_progress' = FALSE

EndCall(t, kind, msg) ==
    /\ result' = [result EXCEPT ![t] = [kind |-> kind, msg |-> msg]]
    /\ pc' = [pc EXCEPT ![t] = "idle"]
    /\ local' = [local EXCEPT ![t] = NoLocal]
    /\ running' = NoTask

\* the except clause recording the message but not the status
ExceptHandlerNoStatus(msg) ==
    current_mission' = [current_mission EXCEPT !.error = msg]

\* lines 58-61: the except clause
ExceptHandler(msg) ==
    current_mission' = [current_mission EXCEPT !.status = "failed", !.error = msg]

\* lines 58-63: the except clause, then the finally clause
Raise(t, msg) ==
    /\ ExceptHandler(msg)
    /\ Finally
    /\ EndCall(t, "failed", "Mission failed: " \o msg)

\* lines 55-56, then the finally clause
Complete(t) ==
    /\ current_mission' = [current_mission EXCEPT !.status = "completed"]
    /\ Finally
    /\ EndCall(t, "returned", "")

Goto(t, label, loc) ==
    /\ pc' = [pc EXCEPT ![t] = label]
    /\ local' = [local EXCEPT ![t] = loc]

\* the location lookup never failing
UnknownLocationUnchecked(location_id) == FALSE

\* lines 31-32: settings.locations.get(location_id) gives nothing
UnknownLocation(location_id) == location_id \notin DOMAIN locations

\* lines 26-40: the in-progress test, the location lookup and the acceptance
\* run without an await between them.
ExecuteMission(t, location_id) ==
    /\ running = NoTask
    /\ pc[t] = "idle"
    /\ ncalls < MaxCalls
    /\ ncalls' = ncalls + 1
    /\ UNCHANGED <<image_buffer, locations, link>>
    /\ IF MissionBusy
       THEN /\ result' = [result EXCEPT ![t] =
                    [kind |-> "rejected", msg |-> "Another mission is already in progress"]]
            /\ UNCHANGED <<mission_in_progress, current_mission, pc, local, running,
                           sent, preflight, rounds, frames_got>>
       ELSE IF UnknownLocation(location_id)
       THEN /\ result' = [result EXCEPT ![t] =
                    [kind |-> "rejected", msg |-> "Unknown location: " \o location_id]]
            /\ UNCHANGED <<mission_in_progress, current_mission, pc, local, running,
                           sent, preflight, rounds, frames_got>>
       ELSE /\ mission_in_progress' = TRUE
            /\ current_mission' = [exists |-> TRUE, location_id |-> location_id,
                                   start_time |-> ncalls', status |-> "in_progress",
                                   error |-> "", completion_time |-> 0]
            /\ frames_got' = <<>>
            /\ result' = [result EXCEPT ![t] = [kind |-> "pending", msg |-> ""]]
            /\ Goto(t, "takeoff", [NoLocal EXCEPT !.location_id = location_id])
            /\ running' = t
            /\ sent' = <<>>
            /\ preflight' = NoPreflight
            /\ rounds' = <<>>

\* the battery floor one too low
BatteryTooLowOffByOne(battery) == battery < BATTERY_MIN - 1

\* line 69
BatteryTooLow(battery) == battery < BATTERY_MIN

\* the marker test left out
MarkerMissingUnchecked(alignment) == FALSE

\* line 78: alignment is None
MarkerMissing(alignment) == ~alignment.has

\* lines 65-87 and the call of _execute_path at line 47; the sequence has no await
TakeoffSequence(t) ==
    /\ running = t
    /\ pc[t] = "takeoff"
    /\ UNCHANGED <<image_buffer, locations, ncalls, link, rounds, frames_got>>
    /\ \E battery \in link.batteries, frame \in link.frames,
          ack1 \in BOOLEAN, ack2 \in BOOLEAN :
        IF BatteryTooLow(battery)
        THEN /\ preflight' = [NoPreflight EXCEPT !.battery = battery]
             /\ sent' = sent
             /\ Raise(t, "Battery too low for mission: " \o ToString(battery) \o "%")
        ELSE /\ preflight' = [battery |-> battery, frame_read |-> TRUE,
                              frame_avail |-> frame.avail,
                              marker_seen |-> HOME_MARKER_ID \in Range(frame.ids)]
             /\ IF ~frame.avail
                THEN sent' = sent /\ Raise(t, "No video frame available")
                ELSE IF MarkerMissing(get_landing_alignment(frame))
                THEN sent' = sent /\ Raise(t, "Cannot detect home marker before takeoff")
                ELSE IF ~ack1
                THEN /\ sent' = Send(sent, "takeoff", ack1)
                     /\ Raise(t, "Takeoff command failed")
                ELSE LET up == "up " \o ToString(ToCm(TAKEOFF_HEIGHT_MM)) IN
                     /\ sent' = Send(Send(sent, "takeoff", ack1), up, ack2)
                     /\ IF ~ack2
                        THEN Raise(t, "Failed to reach takeoff height")
                        ELSE /\ Goto(t, "path",
                                     [local[t] EXCEPT
                                        !.site = "outbound",
                                        !.cmds = locations[local[t].location_id].path,
                                        !.ci = 1])
                             /\ UNCHANGED <<mission_in_progress, current_mission, result,
                                            running>>

\* the acknowledgement of a path command not looked at
RejectedUnchecked(ack) == FALSE

\* line 93: if not self.drone._send_command(command)
Rejected(ack) == ~ack

\* lines 89-95: one iteration of the loop of _execute_path, up to its sleep, or
\* the return to the call site once the list is exhausted
ExecutePath(t) ==
    /\ running = t
    /\ pc[t] = "path"
    /\ UNCHANGED <<image_buffer, locations, ncalls, link, preflight, rounds, frames_got>>
    /\ LET l == local[t] IN
       IF l.ci > Len(l.cmds)
       THEN /\ CASE l.site = "outbound" -> Goto(t, "capture", l)
                 [] l.site = "capture" -> Goto(t, "capture_frames", [l EXCEPT !.fi = 1])
                 [] l.site = "return" ->
                      Goto(t, "align", [l EXCEPT !.aligned = FALSE, !.attempts = 0])
            /\ UNCHANGED <<mission_in_progress, current_mission, result, running, sent>>
       ELSE LET command == CommandOf(l.cmds[l.ci]) IN
            \E ack \in BOOLEAN :
              /\ sent' = Send(sent, command, ack)
              /\ IF Rejected(ack)
                 THEN Raise(t, "Path command failed: " \o command)
                 ELSE /\ Goto(t, "path_sleep", l)
                      /\ running' = NoTask
                      /\ UNCHANGED <<mission_in_progress, current_mission, result>>

\* the buffer left as the earlier missions filled it
BufferKept == image_buffer

\* line 99: self.image_buffer.clear()
BufferCleared == <<>>

\* lines 97-101: the buffer is cleared and the loop over the points begins
CaptureLocation(t) ==
    /\ running = t
    /\ pc[t] = "capture"
    /\ image_buffer' = BufferCleared
    /\ frames_got' = <<>>
    /\ Goto(t, "capture_point", [local[t] EXCEPT !.pt = 1])
    /\ UNCHANGED <<mission_in_progress, current_mission, locations, result, running,
                   ncalls, link, sent, preflight, rounds>>

CapturePoints(t) == locations[local[t].location_id].capture_points

\* lines 101-107: the head of one iteration over the capture points
CapturePoint(t) ==
    /\ running = t
    /\ pc[t] = "capture_point"
    /\ LET l == local[t] IN
       IF l.pt > Len(CapturePoints(t))
       THEN Goto(t, "return_home", l) /\ frames_got' = <<>>
       ELSE /\ LET point == CapturePoints(t)[l.pt] IN
               IF point.has_position
               THEN Goto(t, "path",
                         [l EXCEPT !.site = "capture", !.cmds = <<point.position>>,
                                   !.ci = 1])
               ELSE Goto(t, "capture_frames", [l EXCEPT !.fi = 1])
            /\ frames_got' = frames_got
    /\ UNCHANGED <<mission_in_progress, current_mission, image_buffer, locations, result,
                   running, ncalls, link, sent, preflight, rounds>>

\* lines 108-112: one frame of a capture point, up to its sleep
CaptureFrame(t) ==
    /\ running = t
    /\ pc[t] = "capture_frames"
    /\ LET l == local[t] IN
       IF l.fi > CapturePoints(t)[l.pt].frames
       THEN /\ Goto(t, "capture_point", [l EXCEPT !.pt = l.pt + 1])
            /\ UNCHANGED <<image_buffer, running, frames_got>>
       ELSE \E frame \in link.capture_frames :
              /\ image_buffer' = IF frame.avail THEN Append(image_buffer, frame)
                                 ELSE image_buffer
              /\ frames_got' = Append(frames_got, [phase |-> "capture", frame |-> frame,
                                                    pt |-> l.pt, fi |-> l.fi])
              /\ Goto(t, "capture_sleep", l)
              /\ running' = NoTask
    /\ UNCHANGED <<mission_in_progress, current_mission, locations, result, ncalls, link,
                   sent, preflight, rounds>>

\* lines 116-118: the return path is looked up and _execute_path is entered
ReturnHome(t) ==
    /\ running = t
    /\ pc[t] = "return_home"
    /\ UNCHANGED <<image_buffer, locations, ncalls, link, sent, preflight, rounds,
                   frames_got>>
    /\ IF "home" \notin DOMAIN locations
       THEN Raise(t, "'home'")
       ELSE /\ Goto(t, "path",
                    [local[t] EXCEPT !.site = "return",
                                     !.cmds = locations["home"].return_path,
                                     !.ci = 1])
            /\ UNCHANGED <<mission_in_progress, current_mission, result, running>>

\* the retry bound off by one
LoopContinuesOneMore(t) == ~local[t].aligned /\ local[t].attempts <= MAX_ATTEMPTS

\* line 124
LoopContinues(t) == ~local[t].aligned /\ local[t].attempts < MAX_ATTEMPTS

Abs(x) == IF x < 0 THEN 0 - x ELSE x

\* the corrective commands with left and right exchanged
CorrectionsMirrored(alignment) ==
    IF ~alignment.is_aligned /\ alignment.has
          /\ alignment.distance_from_center > CORRECTION_DISTANCE
    THEN (IF Abs(alignment.tx) > CORRECTION_TRIGGER
          THEN <<(IF alignment.tx > 0 THEN "left" ELSE "right") \o " "
                    \o ToString(CORRECTION_STEP)>>
          ELSE <<>>)
         \o
         (IF Abs(alignment.ty) > CORRECTION_TRIGGER
          THEN <<(IF alignment.ty > 0 THEN "forward" ELSE "back") \o " "
                    \o ToString(CORRECTION_STEP)>>
          ELSE <<>>)
    ELSE <<>>

\* a round that does not see the marker moves to look for it
CorrectionsSearch(alignment) ==
    IF ~alignment.has
    THEN <<"forward " \o ToString(CORRECTION_STEP)>>
    ELSE IF ~alignment.is_aligned /\ alignment.distance_from_center > CORRECTION_DISTANCE
    THEN (IF Abs(alignment.tx) > CORRECTION_TRIGGER
          THEN <<(IF alignment.tx > 0 THEN "right" ELSE "left") \o " "
                    \o ToString(CORRECTION_STEP)>>
          ELSE <<>>)
         \o
         (IF Abs(alignment.ty) > CORRECTION_TRIGGER
          THEN <<(IF alignment.ty > 0 THEN "forward" ELSE "back") \o " "
                    \o ToString(CORRECTION_STEP)>>
          ELSE <<>>)
    ELSE <<>>

\* lines 131-145: the corrective commands of one round
Corrections(alignment) ==
    IF ~alignment.is_aligned /\ alignment.has
          /\ alignment.distance_from_center > CORRECTION_DISTANCE
    THEN (IF Abs(alignment.tx) > CORRECTION_TRIGGER
          THEN <<(IF alignment.tx > 0 THEN "right" ELSE "left") \o " "
                    \o ToString(CORRECTION_STEP)>>
          ELSE <<>>)
         \o
         (IF Abs(alignment.ty) > CORRECTION_TRIGGER
          THEN <<(IF alignment.ty > 0 THEN "forward" ELSE "back") \o " "
                    \o ToString(CORRECTION_STEP)>>
          ELSE <<>>)
    ELSE <<>>

\* the missing frame not looked for
FrameMissingUnchecked(frame) == FALSE

\* line 126: if frame is None
FrameMissing(frame) == ~frame.avail

\* lines 124-148: one round of the landing loop, up to its sleep, or the exit
\* of the loop
AlignRound(t) ==
    /\ running = t
    /\ pc[t] = "align"
    /\ UNCHANGED <<image_buffer, locations, ncalls, link, preflight>>
    /\ IF ~LoopContinues(t)
       THEN /\ Goto(t, "land", local[t])
            /\ UNCHANGED <<mission_in_progress, current_mission, result, running, sent,
                           rounds, frames_got>>
       ELSE \E frame \in link.frames :
              /\ frames_got' = Append(frames_got, [phase |-> "landing", frame |-> frame,
                                                    pt |-> 0, fi |-> local[t].attempts + 1])
              /\ IF FrameMissing(frame)
                 THEN /\ Raise(t, "No video frame available for landing")
                      /\ UNCHANGED <<sent, rounds>>
                    ELSE LET alignment == get_landing_alignment(frame)
                          cmds == Corrections(alignment)
                      IN \E acks \in [1..Len(cmds) -> link.acks] :
                           /\ sent' = sent \o [i \in 1..Len(cmds) |->
                                                 [cmd |-> cmds[i], ack |-> acks[i]]]
                           /\ rounds' = Append(rounds, alignment)
                           /\ Goto(t, "align_sleep",
                                   [local[t] EXCEPT !.aligned = alignment.is_aligned,
                                                    !.attempts = local[t].attempts + 1])
                           /\ running' = NoTask
                           /\ UNCHANGED <<mission_in_progress, current_mission, result>>

\* the test before landing left out
NotAlignedUnchecked(t) == FALSE

\* line 150
NotAligned(t) == ~local[t].aligned

\* lines 150-155, then lines 55-56 and the finally clause
Land(t) ==
    /\ running = t
    /\ pc[t] = "land"
    /\ UNCHANGED <<image_buffer, locations, ncalls, link, preflight, rounds, frames_got>>
    /\ IF NotAligned(t)
       THEN sent' = sent /\ Raise(t, "Failed to align with landing marker")
       ELSE \E ack \in BOOLEAN :
              /\ sent' = Send(sent, "land", ack)
              /\ IF ~ack THEN Raise(t, "Landing command failed") ELSE Complete(t)

\* the timer of an asyncio.sleep (lines 95, 112, 148) fires and the task goes on
Resume(t) ==
    /\ running = NoTask
    /\ pc[t] \in SleepPcs
    /\ running' = t
    /\ CASE pc[t] = "path_sleep" ->
              Goto(t, "path", [local[t] EXCEPT !.ci = local[t].ci + 1])
         [] pc[t] = "capture_sleep" ->
              Goto(t, "capture_frames", [local[t] EXCEPT !.fi = local[t].fi + 1])
         [] pc[t] = "align_sleep" -> Goto(t, "align", local[t])
    /\ UNCHANGED <<mission_in_progress, current_mission, image_buffer, locations, result,
                   ncalls, link, sent, preflight, rounds, frames_got>>

\* the task is cancelled while it sleeps: CancelledError is a BaseException,
\* so the except clause (line 58) is passed over and only the finally clause
\* (lines 62-63) runs
Cancel(t) ==
    /\ running = NoTask
    /\ pc[t] \in SleepPcs
    /\ Finally
    /\ EndCall(t, "cancelled", "")
    /\ UNCHANGED <<current_mission, image_buffer, locations, ncalls, link, sent,
                   preflight, rounds, frames_got>>

\* lines 157-163: what get_status returns (the battery is the link's)
get_status ==
    [mission_in_progress |-> mission_in_progress, current_mission |-> current_mission]

Next ==
    \/ \E t \in Tasks, location_id \in LocationIds : ExecuteMission(t, location_id)
    \/ \E t \in Tasks : TakeoffSequence(t)
    \/ \E t \in Tasks : ExecutePath(t)
    \/ \E t \in Tasks : CaptureLocation(t)
    \/ \E t \in Tasks : CapturePoint(t)
    \/ \E t \in Tasks : CaptureFrame(t)
    \/ \E t \in Tasks : ReturnHome(t)
    \/ \E t \in Tasks : AlignRound(t)
    \/ \E t \in Tasks : Land(t)
    \/ \E t \in Tasks : Resume(t)
    \/ \E t \in Tasks : Cancel(t)

Spec == Init /\ [][Next]_vars
SpecFlight == InitFlight /\ [][Next]_vars
SpecAlign == InitAlign /\ [][Next]_vars
SpecSurvey == InitSurvey /\ [][Next]_vars
SpecPath == InitPath /\ [][Next]_vars

\* The event loop runs a task that is ready: the code after an await goes on
\* once the timer of its sleep has fired and the loop is free.  Calls and
\* cancellations come from outside and may or may not happen.
Progress ==
    \E t \in Tasks :
        \/ TakeoffSequence(t)
        \/ ExecutePath(t)
        \/ CaptureLocation(t)
        \/ CapturePoint(t)
        \/ CaptureFrame(t)
        \/ ReturnHome(t)
        \/ AlignRound(t)
        \/ Land(t)
        \/ Resume(t)
SpecLive == Spec /\ WF_vars(Progress)

\* ------------------------------------------------------------------ claims
InMission(t) == pc[t] # "idle"
Commands(log) == [i \in 1..Len(log) |-> log[i].cmd]
CountOf(log, command) == Cardinality({i \in 1..Len(log) : log[i].cmd = command})
CallEnds(t) == pc[t] # "idle" /\ pc'[t] = "idle"
CallMade == ncalls' = ncalls + 1
ConflictMsg == "Another mission is already in progress"
TimeoutMsg == "Failed to align with landing marker"

\* C1: at most one execute_mission call is past the in-progress test at any
\* time, a call past it holds the guard, and a call made while the guard is
\* held ends at once with the conflict error, starts nothing and changes
\* neither the guard nor the mission record.
C1_SingleFlight ==
    /\ [](/\ Cardinality({t \in Tasks : InMission(t)}) <= 1
          /\ \A t \in Tasks : InMission(t) => mission_in_progress)
    /\ [][(CallMade /\ mission_in_progress) =>
            /\ pc' = pc
            /\ mission_in_progress'
            /\ current_mission' = current_mission
            /\ \E t \in Tasks :
                 /\ result'[t] = [kind |-> "rejected", msg |-> ConflictMsg]
                 /\ \A u \in Tasks \ {t} : result'[u] = result[u]]_vars

C1_Witness ==
    \E t \in Tasks, u \in Tasks :
        /\ pc[t] \in SleepPcs
        /\ result[u] = [kind |-> "rejected", msg |-> ConflictMsg]

\* C2: a 'land' command is in the log of a mission only if the landing loop
\* of that mission evaluated at least one frame and the last frame it
\* evaluated was aligned.
C2_LandOnlyAligned ==
    (\E i \in 1..Len(sent) : sent[i].cmd = "land") =>
        /\ Len(rounds) >= 1
        /\ rounds[Len(rounds)].has
        /\ rounds[Len(rounds)].is_aligned

C2_Witness ==
    /\ Len(sent) >= 1
    /\ sent[Len(sent)].cmd = "land"
    /\ Len(rounds) = 3
    /\ ~rounds[1].has
    /\ ~rounds[2].is_aligned

\* C3: a mission whose preflight battery reading is below 20 has failed with
\* the battery error and has sent no command.
C3_LowBatteryNoCommand ==
    (preflight.battery >= 0 /\ preflight.battery < 20) =>
        /\ sent = <<>>
        /\ current_mission.status = "failed"
        /\ current_mission.error =
               "Battery too low for mission: " \o ToString(preflight.battery) \o "%"
        /\ ~mission_in_progress

C3_Witness ==
    /\ preflight.battery = 15
    /\ current_mission.status = "failed"
    /\ sent = <<>>

\* C4: a mission has sent a command only if its preflight read a frame that
\* was available and held the home marker, and 'takeoff' is then the first
\* command; a mission whose preflight frame was missing or without the home
\* marker has failed and sent nothing.
C4_TakeoffNeedsMarker ==
    /\ sent # <<>> =>
          /\ sent[1].cmd = "takeoff"
          /\ preflight.frame_read /\ preflight.frame_avail /\ preflight.marker_seen
    /\ (preflight.frame_read /\ ~(preflight.frame_avail /\ preflight.marker_seen)) =>
          /\ sent = <<>>
          /\ current_mission.status = "failed"
          /\ current_mission.error =
                 (IF preflight.frame_avail
                  THEN "Cannot detect home marker before takeoff"
                  ELSE "No video frame available")

C4_Witness ==
    /\ preflight.frame_read /\ preflight.frame_avail /\ ~preflight.marker_seen
    /\ current_mission.status = "failed"
    /\ sent = <<>>

\* C5: when an accepted call ends, by return, failure or cancellation, the
\* guard is clear in the next state, and a call made while no call is under
\* way is never rejected as a conflict.
C5_GuardReleased ==
    [][/\ \A t \in Tasks : CallEnds(t) => ~mission_in_progress'
       /\ (CallMade /\ \A t \in Tasks : ~InMission(t)) =>
             \A t \in Tasks : result'[t] # result[t] => result'[t].msg # ConflictMsg]_vars

C5_Witness ==
    \E t \in Tasks, u \in Tasks :
        /\ result[t].kind = "cancelled"
        /\ result[u].kind = "pending"
        /\ InMission(u)

\* C6 (as claimed): in every state get_status can see, the guard is set
\* exactly when the mission record exists and is in_progress.
C6_GuardMatchesStatus ==
    running = NoTask =>
        (get_status.mission_in_progress <=>
            (get_status.current_mission.exists
                /\ get_status.current_mission.status = "in_progress"))

\* The commands translation (tx, ty), in hundredths, calls for.
FromTranslation(tx, ty) ==
    (IF tx > 20 THEN <<"right 20">> ELSE IF tx < -20 THEN <<"left 20">> ELSE <<>>)
    \o (IF ty > 20 THEN <<"forward 20">> ELSE IF ty < -20 THEN <<"back 20">> ELSE <<>>)

RoundDone == Len(rounds') = Len(rounds) + 1
NewCommands == SubSeq(Commands(sent'), Len(sent) + 1, Len(sent'))
AllRounds(tx, ty) ==
    /\ Len(rounds) = 3
    /\ \A i \in 1..3 :
         rounds[i].has /\ ~rounds[i].is_aligned /\ rounds[i].tx = tx /\ rounds[i].ty = ty

\* C7 (as claimed): every round that sees the home marker in a frame that is
\* not aligned sends the commands its translation calls for, and three such
\* rounds with translation (0.3, 0) send three 'right 20' and no 'land'.
C7_CorrectionFromTranslation ==
    /\ [][RoundDone =>
            LET a == rounds'[Len(rounds')] IN
            (a.has /\ ~a.is_aligned) => NewCommands = FromTranslation(a.tx, a.ty)]_vars
    /\ [](AllRounds(30, 0) =>
            CountOf(sent, "right 20") = 3 /\ CountOf(sent, "land") = 0)

\* C7 (amended): a round that sees the home marker in a frame that is not
\* aligned sends the commands its translation calls for when the marker is
\* more than 50 pixels off centre and sends nothing otherwise; three such
\* rounds more than 50 pixels off centre with translation (0.3, 0) send three
\* 'right 20' and no 'land', and the mission then fails with the alignment
\* error.
C7_CorrectionWhenOffCentre ==
    /\ [][RoundDone =>
            LET a == rounds'[Len(rounds')] IN
            NewCommands = (IF a.has /\ ~a.is_aligned /\ a.distance_from_center > 50
                           THEN FromTranslation(a.tx, a.ty)
                           ELSE <<>>)]_vars
    /\ []((AllRounds(30, 0) /\ \A i \in 1..3 : rounds[i].distance_from_center > 50) =>
            /\ CountOf(sent, "right 20") = 3
            /\ CountOf(sent, "left 20") = 0
            /\ CountOf(sent, "land") = 0
            /\ current_mission.status = "failed" => current_mission.error = TimeoutMsg)

C7_Witness ==
    /\ AllRounds(30, 0)
    /\ CountOf(sent, "right 20") = 3
    /\ current_mission.status = "failed"
    /\ current_mission.error = TimeoutMsg

\* C8: the landing loop evaluates at most 3 frames; only its last evaluation
\* can be aligned; the alignment error is raised only after 3 evaluations
\* none of which was aligned, and a mission that failed after 3 such
\* evaluations failed with the alignment error.
C8_ThreeRounds ==
    /\ Len(rounds) <= 3
    /\ \A i \in 1..Len(rounds) : rounds[i].is_aligned => i = Len(rounds)
    /\ current_mission.error = TimeoutMsg =>
          Len(rounds) = 3 /\ \A i \in 1..3 : ~rounds[i].is_aligned
    /\ (current_mission.status = "failed" /\ Len(rounds) = 3
            /\ \A i \in 1..3 : ~rounds[i].is_aligned) =>
          current_mission.error = TimeoutMsg

C8_Witness ==
    /\ current_mission.status = "failed"
    /\ current_mission.error = TimeoutMsg
    /\ Len(rounds) = 3

\* C9 (as claimed): a command the link rejected is the last command of its
\* mission, and the mission has failed.
C9_RejectionIsFatal ==
    \A i \in 1..Len(sent) :
        ~sent[i].ack => (i = Len(sent) /\ current_mission.status = "failed")

\* C10: a call that ended with the mission-failure error left the record
\* failed, with the error's message in its error field and wrapped in the
\* error raised, and the guard clear; a failed record belongs to a call that
\* raised, and a completed record to none that did.
C10_FailureRecorded ==
    /\ \A t \in Tasks :
         result[t].kind = "failed" =>
            /\ pc[t] = "idle"
            /\ current_mission.status = "failed"
            /\ current_mission.error # ""
            /\ result[t].msg = "Mission failed: " \o current_mission.error
            /\ ~mission_in_progress
    /\ current_mission.status = "failed" =>
          Cardinality({t \in Tasks : result[t].kind = "failed"}) = 1
    /\ current_mission.status = "completed" =>
          \A t \in Tasks : result[t].kind # "failed"

C10_Witness ==
    \E t \in Tasks :
        /\ result[t] = [kind |-> "failed", msg |-> "Mission failed: Landing command failed"]
        /\ current_mission.status = "failed"
        /\ Len(sent) >= 3

\* The phase a command of the location tables above belongs to: 1 takeoff,
\* 2 ascent, 3 outbound path, 4 capture, 5 return path, 6 alignment, 7 landing.
PhaseOf(command) ==
    CASE command = "takeoff" -> 1
      [] command = "up 100" -> 2
      [] command = "forward 100" -> 3
      [] command = "up 50" -> 4
      [] command = "back 100" -> 5
      [] command \in {"right 20", "left 20", "forward 20", "back 20"} -> 6
      [] command = "land" -> 7
      [] OTHER -> 0

\* The commands of a mission are sent phase by phase, 'takeoff' first, 'land'
\* last and at most once.
InPhaseOrder ==
    /\ sent # <<>> => sent[1].cmd = "takeoff"
    /\ \A i \in 1..Len(sent), j \in 1..Len(sent) :
         i < j => PhaseOf(sent[i].cmd) <= PhaseOf(sent[j].cmd)
    /\ CountOf(sent, "takeoff") <= 1
    /\ CountOf(sent, "land") <= 1
    /\ \A i \in 1..Len(sent) : sent[i].cmd = "land" => i = Len(sent)

\* C11 (as claimed): the commands of a mission are sent phase by phase,
\* 'takeoff' first, 'land' last and at most once, and a command is sent only
\* when every command of every earlier phase was acknowledged.
C11_StrictOrder ==
    /\ InPhaseOrder
    /\ \A i \in 1..Len(sent), j \in 1..Len(sent) :
         PhaseOf(sent[i].cmd) < PhaseOf(sent[j].cmd) => sent[i].ack

\* The commands of the return path the location table stores for a location.
ReturnCommands(location_id) ==
    [i \in 1..Len(locations[location_id].return_path) |->
        CommandOf(locations[location_id].return_path[i])]

LastCommands(n) == SubSeq(Commands(sent), Len(sent) - n + 1, Len(sent))

\* C12 (as claimed): when the return path of a mission has been run, the
\* commands it sent are the return path the table stores for the mission's
\* location, and no mission fails for want of another entry of the table.
C12_OwnReturnPath ==
    /\ \A t \in Tasks :
         (pc[t] = "align" /\ rounds = <<>>) =>
            LET own == ReturnCommands(local[t].location_id) IN
            Len(sent) >= Len(own) /\ LastCommands(Len(own)) = own
    /\ current_mission.error # "'home'"

\* The return path sent is the one stored under 'home', whatever the location.
ReturnPathIsHome ==
    \A t \in Tasks :
        (pc[t] = "align" /\ rounds = <<>>) =>
            /\ "home" \in DOMAIN locations
            /\ LastCommands(Len(ReturnCommands("home"))) = ReturnCommands("home")

UnknownMsgs == {"Unknown location: " \o id : id \in LocationIds \ DOMAIN locations}

\* C13: a call that is rejected leaves the guard, the mission record, the
\* image buffer and every call under way as they were; it is rejected as a
\* conflict exactly when the guard is set, which stays set, and as an unknown
\* location only when the guard is clear, which stays clear; a call that is
\* accepted found the guard clear and names a location of the table.
C13_RejectionChangesNothing ==
    [][CallMade =>
        IF pc' = pc
        THEN /\ mission_in_progress' = mission_in_progress
             /\ current_mission' = current_mission
             /\ image_buffer' = image_buffer
             /\ local' = local
             /\ running' = running
             /\ sent' = sent
             /\ \E t \in Tasks :
                  /\ result'[t].kind = "rejected"
                  /\ IF mission_in_progress
                     THEN result'[t].msg = ConflictMsg
                     ELSE result'[t].msg \in UnknownMsgs
                  /\ \A u \in Tasks \ {t} : result'[u] = result[u]
        ELSE /\ ~mission_in_progress
             /\ current_mission'.location_id \in DOMAIN locations]_vars

C13_Witness ==
    \E t \in Tasks :
        /\ result[t] = [kind |-> "rejected", msg |-> "Unknown location: Z"]
        /\ ~mission_in_progress
        /\ current_mission.status = "completed"

\* C14 (as claimed): a call that returned left the record completed, with a
\* completion time recorded, and the guard clear.
C14_CompletedWithTime ==
    \A t \in Tasks :
        result[t].kind = "returned" =>
            /\ current_mission.status = "completed"
            /\ current_mission.completion_time > 0
            /\ ~mission_in_progress

\* A call that returned left the record completed and the guard clear, after
\* a 'land' the link acknowledged.
CompletedAndReleased ==
    \A t \in Tasks :
        result[t].kind = "returned" =>
            /\ current_mission.status = "completed"
            /\ ~mission_in_progress
            /\ sent[Len(sent)] = [cmd |-> "land", ack |-> TRUE]

\* The frames the landing loop under way has read, in order.
LandingFrames ==
    LET got == SelectSeq(frames_got, LAMBDA e : e.phase = "landing")
    IN [i \in 1..Len(got) |-> got[i].frame]

HomeDetected(frame) == \E i \in 1..Len(frame.ids) : frame.ids[i] = 1

\* C15: every evaluation of a frame by the alignment predicate gives aligned
\* exactly when the home marker is among the detected markers, its distance
\* from the frame centre is below 50 pixels and its area is above a tenth of
\* the 960 x 720 frame; it gives no sample when the home marker is not
\* detected, and a sample carrying the distance and the area when it is.  A
\* marker at 40 pixels with 15% of the frame is aligned, one at 60 pixels
\* with 20% is not.
C15_AlignmentPredicate ==
    /\ Len(rounds) <= Len(LandingFrames)
    /\ \A i \in 1..Len(rounds) :
         LET frame == LandingFrames[i]
             alignment == rounds[i]
         IN /\ alignment.has = HomeDetected(frame)
            /\ alignment.is_aligned =
                 (HomeDetected(frame) /\ frame.dist < 50 /\ 10 * frame.area > 960 * 720)
            /\ ~HomeDetected(frame) => alignment = NoAlignment
            /\ HomeDetected(frame) =>
                 /\ alignment.distance_from_center = frame.dist
                 /\ alignment.marker_size = frame.area
            /\ (HomeDetected(frame) /\ frame.dist = 40 /\ frame.area = 103680) =>
                 alignment.is_aligned
            /\ (frame.dist = 60 /\ frame.area = 138240) => ~alignment.is_aligned

C15_Witness ==
    /\ Len(rounds) = 3
    /\ LandingFrames[1].dist = 50 /\ LandingFrames[1].area = 103680
    /\ rounds[1].has /\ ~rounds[1].is_aligned
    /\ LandingFrames[2] = LandingFrames[1]
    /\ LandingFrames[3] = AlignedFrame
    /\ rounds[3].is_aligned

\* The samples get_frame gave to the capture phase under way, in the order
\* they were taken, and those of them that are frames.
CaptureSamples == SelectSeq(frames_got, LAMBDA e : e.phase = "capture")
NonNull(samples) ==
    LET got == SelectSeq(samples, LAMBDA e : e.frame.avail)
    IN [i \in 1..Len(got) |-> got[i].frame]
InCapture(t) ==
    \/ pc[t] \in {"capture_point", "capture_frames", "capture_sleep"}
    \/ pc[t] \in {"path", "path_sleep"} /\ local[t].site = "capture"
CaptureDone(t) ==
    pc[t] = "capture_point" /\ local[t].pt > Len(CapturePoints(t))

\* C16: throughout a capture phase the buffer holds exactly the frames that
\* phase sampled, nulls left out, in the order point by point and frame by
\* frame, and nothing an earlier phase put there; a null sample leaves the
\* mission in progress; after the phase over the points of A, with 2 and 1
\* frames, 3 samples were taken (none over the empty list of home) and the
\* buffer is as long as the frames among them.
C16_BufferIsThisPhase ==
    /\ [](\A t \in Tasks : InCapture(t) =>
            /\ image_buffer = NonNull(CaptureSamples)
            /\ current_mission.status = "in_progress"
            /\ \A i \in 1..Len(CaptureSamples), j \in 1..Len(CaptureSamples) :
                 i < j =>
                   \/ CaptureSamples[i].pt < CaptureSamples[j].pt
                   \/ /\ CaptureSamples[i].pt = CaptureSamples[j].pt
                      /\ CaptureSamples[i].fi < CaptureSamples[j].fi
            /\ CaptureDone(t) =>
                 /\ [i \in 1..Len(CaptureSamples) |->
                        <<CaptureSamples[i].pt, CaptureSamples[i].fi>>]
                      = (IF local[t].location_id = "A"
                         THEN << <<1, 1>>, <<1, 2>>, <<2, 1>> >>
                         ELSE << >>)
                 /\ Len(image_buffer) =
                      Len(CaptureSamples)
                        - Cardinality({i \in 1..Len(CaptureSamples) :
                                         ~CaptureSamples[i].frame.avail}))
    /\ [][\A t \in Tasks :
            (pc[t] = "capture_frames" /\ pc'[t] # "capture_frames"
               /\ Len(frames_got') > Len(frames_got)) =>
                 /\ pc'[t] = "capture_sleep"
                 /\ current_mission' = current_mission
                 /\ mission_in_progress']_vars

C16_Witness ==
    \E t \in Tasks :
        /\ CaptureDone(t)
        /\ current_mission.start_time = MaxCalls
        /\ \E u \in Tasks : result[u].kind = "returned"
        /\ [i \in 1..Len(CaptureSamples) |-> CaptureSamples[i].frame]
             = <<OtherOnly, NoFrame, AlignedFrame>>
        /\ image_buffer = <<OtherOnly, AlignedFrame>>

\* C17 (as claimed), in the form a finite run decides: once every call has
\* ended, the record of an accepted mission is completed or failed and the
\* guard is clear, so no record stays in_progress with no call left to end it.
C17_EndsTerminal ==
    ((\A t \in Tasks : pc[t] = "idle") /\ current_mission.exists) =>
        /\ current_mission.status \in {"completed", "failed"}
        /\ ~mission_in_progress

\* With a fair event loop every accepted call ends.
EveryCallEnds == \A t \in Tasks : InMission(t) ~> pc[t] = "idle"

\* A call that ends by returning or by raising leaves a terminal record.
EndsTerminalUnlessCancelled ==
    [][\A t \in Tasks :
         (CallEnds(t) /\ result'[t].kind # "cancelled") =>
             /\ current_mission'.status \in {"completed", "failed"}
             /\ ~mission_in_progress']_vars

\* The commands a mission over the table of long paths gives up to the
\* landing loop: takeoff and climb, then the outbound path, the capture
\* position and the return path, each in the order of its list.
LongCommands ==
    IF current_mission.location_id = "A"
    THEN <<"takeoff", "up 100", "forward 100", "right 50", "up 30", "down 20",
           "left 50", "back 100">>
    ELSE <<"takeoff", "up 100", "left 50", "back 100">>

\* C18: the commands of the path runs are sent in the order of their lists,
\* one per step; a path command the link rejects is the last command of the
\* mission, so that none of the commands after it in the list is sent, and
\* the mission has failed with the path error naming that command.
C18_PathStopsAtRejection ==
    /\ [](LET n == IF Len(sent) < Len(LongCommands) THEN Len(sent) ELSE Len(LongCommands)
          IN /\ \A i \in 1..n : sent[i].cmd = LongCommands[i]
             /\ \A i \in 3..n :
                  ~sent[i].ack =>
                     /\ i = Len(sent)
                     /\ \A t \in Tasks : pc[t] = "idle"
                     /\ ~mission_in_progress
                     /\ current_mission.status = "failed"
                     /\ current_mission.error = "Path command failed: " \o LongCommands[i])
    /\ [][\A t \in Tasks :
            pc[t] = "path" => Len(sent') <= Len(sent) + 1]_vars

C18_Witness ==
    /\ current_mission.location_id = "A"
    /\ Len(sent) = 4
    /\ sent[3] = [cmd |-> "forward 100", ack |-> TRUE]
    /\ sent[4] = [cmd |-> "right 50", ack |-> FALSE]
    /\ current_mission.error = "Path command failed: right 50"
    /\ \A t \in Tasks : pc[t] = "idle"

VideoMsg == "No video frame available for landing"
CorrectiveCommands == {"right 20", "left 20", "forward 20", "back 20"}

\* C19: a round of the landing loop that gets no frame ends the mission at
\* once with the video error: that read is the last of the loop, it is not
\* evaluated as a round, it sends nothing, the call has ended with the record
\* failed and the guard clear, and no 'land' was sent.
C19_NoFrameFailsClosed ==
    /\ [](\A i \in 1..Len(LandingFrames) :
            ~LandingFrames[i].avail =>
               /\ i = Len(LandingFrames)
               /\ Len(rounds) = i - 1
               /\ \A t \in Tasks : pc[t] = "idle"
               /\ ~mission_in_progress
               /\ current_mission.status = "failed"
               /\ current_mission.error = VideoMsg
               /\ \A j \in 1..Len(sent) : sent[j].cmd # "land")
    /\ [][(Len(LandingFrames') > Len(LandingFrames)
             /\ ~LandingFrames'[Len(LandingFrames')].avail) =>
               sent' = sent /\ rounds' = rounds]_vars

C19_Witness ==
    /\ Len(LandingFrames) = 3
    /\ ~LandingFrames[3].avail
    /\ Len(rounds) = 2
    /\ sent[Len(sent)].cmd \in CorrectiveCommands
    /\ current_mission.error = VideoMsg

\* C20: a round of the landing loop whose frame does not show the home
\* marker sends no command, counts as an attempt and goes to the settle
\* delay, after which the loop tests its bound again; three such rounds send
\* no corrective command and no 'land', and the mission that fails after
\* them fails with the alignment error.
C20_UnseenMarkerWaits ==
    /\ [][\A t \in Tasks :
            (pc[t] = "align" /\ RoundDone /\ ~rounds'[Len(rounds')].has) =>
               /\ sent' = sent
               /\ local'[t].attempts = local[t].attempts + 1
               /\ ~local'[t].aligned
               /\ pc'[t] = "align_sleep"
               /\ current_mission' = current_mission]_vars
    /\ [][\A t \in Tasks :
            (pc[t] = "align_sleep" /\ pc'[t] # "idle") =>
               pc'[t] = "align" /\ local'[t] = local[t] /\ sent' = sent]_vars
    /\ []((Len(rounds) = 3 /\ \A i \in 1..3 : ~rounds[i].has) =>
            /\ \A j \in 1..Len(sent) : sent[j].cmd \notin CorrectiveCommands \cup {"land"}
            /\ \A t \in Tasks : pc[t] \in {"align_sleep", "align", "land", "idle"}
            /\ current_mission.status = "failed" => current_mission.error = TimeoutMsg)

C20_Witness ==
    /\ Len(rounds) = 3
    /\ \A i \in 1..3 : ~rounds[i].has
    /\ Commands(sent) = <<"takeoff", "up 100", "forward 100", "up 50", "back 100">>
    /\ current_mission.status = "failed"
    /\ current_mission.error = TimeoutMsg
====
